---- MODULE Spec2Model ----
(***************************************************************************)
(* A model of ktuban/structured-logger: the StructuredLogger engine        *)
(* (level filter, meta normalisation, error serialisation, redaction,      *)
(* formatting, the AsyncLocalStorage request context, child loggers, the   *)
(* singleton accessor) and the Express middleware that uses it.            *)
(*                                                                         *)
(* JavaScript values are records tagged by their type (field t).  Objects  *)
(* keep their keys in insertion order: an object is a sequence of          *)
(* [k, v] entries with distinct keys.  Error objects live in a heap and    *)
(* are referred to by identity, so that a cause chain may be cyclic.       *)
(* The timestamp of a record (the wall clock) is left out of the model.    *)
(***************************************************************************)
EXTENDS Integers, Sequences, FiniteSets, TLC

VARIABLES
    env,        \* process.env: a partial record of NODE_ENV, SERVICE_NAME
    instance,   \* StructuredLogger.instance (static): NoInstance or a logger
    made,       \* how many loggers the constructor has built
    gets,       \* history: the getInstance calls made, [cfg, ret]
    lastIndex,  \* lastIndex of each rule of options.redactKeys (RegExp state)
    stream,     \* what each destination has received: dest -> lines
    heap,       \* the Error objects of the program: id -> [name, message, cause]
    store,      \* AsyncLocalStorage: the store of the running execution
    saved,      \* stores to restore when the active als.run calls return
    pending,    \* asynchronous continuations, each with the store it captured
    chain,      \* history: ids bound by the runWithContext scopes enclosing
                \* the running execution, outermost first
    reqs,       \* the HTTP requests: r -> [pc, header, requestId, locals]
    npassed,    \* history: log calls whose level passed the threshold
    last        \* history: the last log call, its inputs and its outcome

vars == <<env, instance, made, gets, lastIndex, stream, heap, store, saved,
          pending, chain, reqs, npassed, last>>

-----------------------------------------------------------------------------
(* Bounds of the model.                                                    *)

\* Error objects in the heap.
NumErrs == 2
\* Log calls in one behaviour.
MaxCalls == 2
\* Log calls in one behaviour that also moves between scopes.
MaxScopedCalls == 1
\* Nesting of runWithContext scopes around one execution.
MaxDepth == 2
\* Asynchronous continuations waiting at one time.
MaxPending == 1
\* getInstance calls in one behaviour.
MaxGets == 3
\* HTTP requests in one behaviour.
NumReqs == 2

-----------------------------------------------------------------------------
(* JavaScript values.                                                      *)

Undef == [t |-> "undefined"]
Null == [t |-> "null"]
Num(n) == [t |-> "number", n |-> n]
Str(s) == [t |-> "string", s |-> s]
Bool(b) == [t |-> "boolean", b |-> b]
ErrRef(e) == [t |-> "error", ref |-> e]
Arr(items) == [t |-> "array", items |-> items]
Obj(entries) == [t |-> "object", entries |-> entries]

\* What a throw leaves instead of a value.
Thrown(what) == [t |-> "throw", error |-> what]
IsThrown(v) == v.t = "throw"

\* !v
Falsy(v) ==
    \/ v.t \in {"undefined", "null"}
    \/ v.t = "number" /\ v.n = 0
    \/ v.t = "string" /\ v.s = ""
    \/ v.t = "boolean" /\ ~v.b

NoEntries == <<>>
EmptyObj == Obj(NoEntries)

Keys(o) == {o.entries[i].k : i \in 1..Len(o.entries)}
HasKey(o, k) == \E i \in 1..Len(o.entries) : o.entries[i].k = k
Get(o, k) == o.entries[CHOOSE i \in 1..Len(o.entries) : o.entries[i].k = k].v

\* v[k] for an own data property; undefined when there is none.  The caller
\* has ruled out null and undefined, on which a property read throws.
Prop(v, k) == IF v.t = "object" /\ HasKey(v, k) THEN Get(v, k) ELSE Undef

\* An object spread is written by Put: an existing key keeps its place and
\* takes the new value, a new key goes last.
Put(entries, k, v) ==
    IF \E i \in 1..Len(entries) : entries[i].k = k
    THEN [i \in 1..Len(entries) |->
             IF entries[i].k = k THEN [k |-> k, v |-> v] ELSE entries[i]]
    ELSE Append(entries, [k |-> k, v |-> v])

RECURSIVE PutAll(_, _)
PutAll(entries, more) ==
    IF more = <<>> THEN entries
    ELSE PutAll(Put(entries, Head(more).k, Head(more).v), Tail(more))

-----------------------------------------------------------------------------
(* Errors and their serialisation.                                         *)

Errs == 1..NumErrs

\* The frames the call stack admits before the engine throws RangeError;
\* every acyclic cause chain of the model fits.
StackDepth == NumErrs + 1

ErrName(e) == Str("Error")
ErrMessage(e) == Str("boom")
ErrStack(e) == Str("Error: boom at ...")

\* What err.cause may be: nothing, another Error (or the same), a plain value.
Causes == {Undef, Str("why")} \cup {ErrRef(e) : e \in Errs}
Heaps == [Errs -> Causes]

IncludeStackTraces == instance.options.includeStackTraces

\* serializeError with the depth of the recursion so far.
RECURSIVE serializeErrorAt(_, _)
serializeErrorAt(e, depth) ==
    IF depth > StackDepth THEN Thrown("RangeError")
    ELSE LET c == heap[e]
             cause == IF c.t = "error"
                      THEN serializeErrorAt(c.ref, depth + 1)
                      ELSE c
         IN  IF IsThrown(cause) THEN cause
             ELSE Obj(<< [k |-> "name", v |-> ErrName(e)],
                         [k |-> "message", v |-> ErrMessage(e)],
                         [k |-> "stack",
                          v |-> IF IncludeStackTraces THEN ErrStack(e) ELSE Undef],
                         [k |-> "cause", v |-> cause] >>)

serializeError(err) == serializeErrorAt(err.ref, 1)

\* The value at one key of a plain mapping.
normalizeValue(value) ==
    IF value.t = "error" THEN serializeError(value) ELSE value

AnyThrown(seq) == \E i \in 1..Len(seq) : IsThrown(seq[i])
FirstThrown(seq) == seq[CHOOSE i \in 1..Len(seq) :
                           IsThrown(seq[i]) /\ \A j \in 1..(i - 1) : ~IsThrown(seq[j])]

normalizeEntries(entries) ==
    LET vs == [i \in 1..Len(entries) |-> normalizeValue(entries[i].v)]
    IN  IF AnyThrown(vs) THEN FirstThrown(vs)
        ELSE Obj([i \in 1..Len(entries) |-> [k |-> entries[i].k, v |-> vs[i]]])

RECURSIVE normalizeMeta(_)
normalizeMeta(meta) ==
    IF Falsy(meta) THEN EmptyObj
    ELSE IF meta.t = "error" THEN serializeError(meta)
    ELSE IF meta.t = "array" THEN
        LET items == [i \in 1..Len(meta.items) |-> normalizeMeta(meta.items[i])]
        IN  IF AnyThrown(items) THEN FirstThrown(items)
            ELSE Obj(<< [k |-> "items", v |-> Arr(items)] >>)
    ELSE IF meta.t = "object" THEN normalizeEntries(meta.entries)
    ELSE Obj(<< [k |-> "value", v |-> meta] >>)

-----------------------------------------------------------------------------
(* Configuration and construction.                                         *)

Levels == {"error", "warn", "info", "http", "debug"}
levels == [error |-> 0, warn |-> 1, info |-> 2, http |-> 3, debug |-> 4]

\* A redaction rule: an exact key, or a RegExp.  The patterns of the model
\* are literal texts; source is the text as characters, global the g flag.
StrRule(k) == [kind |-> "string", key |-> k]
ReRule(src, g) == [kind |-> "regexp", source |-> src, global |-> g]

\* LoggerOptions and process.env are partial records: a field left out is
\* undefined.  Opt is c.f ?? d.
NoOptions == [f \in {} |-> ""]
Opt(c, f, d) == IF f \in DOMAIN c THEN c[f] ELSE d

NoInstance == [t |-> "none"]

\* new StructuredLogger(options): the options with defaults filled in, and
\* the stream chosen from filePath.
Construct(options, id) ==
    LET isProd == Opt(env, "NODE_ENV", "") = "production"
        filled ==
            [serviceName |-> Opt(options, "serviceName",
                                 Opt(env, "SERVICE_NAME", "app")),
             level |-> Opt(options, "level", IF isProd THEN "info" ELSE "debug"),
             format |-> Opt(options, "format", IF isProd THEN "json" ELSE "text"),
             includeStackTraces |-> Opt(options, "includeStackTraces", ~isProd),
             redactKeys |-> Opt(options, "redactKeys", <<>>),
             filePath |-> Opt(options, "filePath", "")]
    IN  [t |-> "logger", id |-> id, options |-> filled,
         dest |-> IF filled.filePath # "" THEN "file" ELSE "stdout"]

\* An accessor that builds a new logger whenever it is given options.
getInstanceMutant(options) ==
    IF instance = NoInstance \/ DOMAIN options # {}
    THEN Construct(options, made + 1) ELSE instance

\* What StructuredLogger.getInstance(options) returns and leaves in the
\* static field.
getInstance(options) ==
    IF instance = NoInstance THEN Construct(options, made + 1) ELSE instance

\* A RegExp starts with lastIndex 0.
FreshIndexes(rules) == [j \in 1..Len(rules) |-> 0]

Dests == {"stdout", "file"}
NoOutput == [d \in Dests |-> <<>>]

-----------------------------------------------------------------------------
(* Redaction.                                                              *)

REDACTED == Str("[REDACTED]")

\* The characters of each key a meta of the model can hold.
KeyText ==
    [requestId |-> <<"r", "e", "q", "u", "e", "s", "t", "I", "d">>,
     correlationId |-> <<"c", "o", "r", "r", "e", "l", "a", "t", "i", "o", "n", "I", "d">>,
     password |-> <<"p", "a", "s", "s", "w", "o", "r", "d">>,
     apikey |-> <<"a", "p", "i", "k", "e", "y">>,
     keyid |-> <<"k", "e", "y", "i", "d">>,
     userId |-> <<"u", "s", "e", "r", "I", "d">>,
     component |-> <<"c", "o", "m", "p", "o", "n", "e", "n", "t">>,
     x |-> <<"x">>,
     name |-> <<"n", "a", "m", "e">>,
     message |-> <<"m", "e", "s", "s", "a", "g", "e">>,
     stack |-> <<"s", "t", "a", "c", "k">>,
     cause |-> <<"c", "a", "u", "s", "e">>,
     items |-> <<"i", "t", "e", "m", "s">>,
     value |-> <<"v", "a", "l", "u", "e">>,
     err |-> <<"e", "r", "r">>,
     method |-> <<"m", "e", "t", "h", "o", "d">>,
     url |-> <<"u", "r", "l">>,
     statusCode |-> <<"s", "t", "a", "t", "u", "s", "C", "o", "d", "e">>,
     statusMessage |-> <<"s", "t", "a", "t", "u", "s", "M", "e", "s", "s", "a", "g", "e">>,
     duration |-> <<"d", "u", "r", "a", "t", "i", "o", "n">>,
     ip |-> <<"i", "p">>,
     userAgent |-> <<"u", "s", "e", "r", "A", "g", "e", "n", "t">>,
     contentLength |-> <<"c", "o", "n", "t", "e", "n", "t", "L", "e", "n", "g", "t", "h">>]

\* The pattern occurs in text at offset p (from 0).
MatchAt(src, text, p) ==
    /\ p + Len(src) <= Len(text)
    /\ \A i \in 1..Len(src) : text[p + i] = src[i]

\* The offsets, from `from` on, at which the pattern occurs in text.
MatchesFrom(src, text, from) ==
    {p \in from..Len(text) : MatchAt(src, text, p)}

Least(S) == CHOOSE p \in S : \A q \in S : p <= q

\* rule.test(text) on a RegExp whose lastIndex is li: the result and the
\* lastIndex it leaves.  A global RegExp searches from lastIndex, leaves it
\* after the match and resets it to 0 on failure; another one searches from
\* the start and leaves lastIndex alone.
RegExpTest(rule, li, text) ==
    LET from == IF rule.global THEN li ELSE 0
        found == IF from > Len(text) THEN {}
                 ELSE MatchesFrom(rule.source, text, from)
    IN  IF found = {}
        THEN [res |-> FALSE, lastIndex |-> IF rule.global THEN 0 ELSE li]
        ELSE [res |-> TRUE,
              lastIndex |-> IF rule.global
                            THEN Least(found) + Len(rule.source) ELSE li]

\* The inner loop of redact: the rules from j on, tried on one key.
RECURSIVE ruleLoop(_, _, _, _, _)
ruleLoop(key, rules, j, li, hit) ==
    IF j > Len(rules) THEN [hit |-> hit, li |-> li]
    ELSE IF rules[j].kind = "string"
    THEN ruleLoop(key, rules, j + 1, li, hit \/ key = rules[j].key)
    ELSE LET r == RegExpTest(rules[j], li[j], KeyText[key])
         IN  ruleLoop(key, rules, j + 1, [li EXCEPT ![j] = r.lastIndex],
                      hit \/ r.res)

\* The outer loop of redact: the keys from i on, in the clone's key order.
RECURSIVE keyLoop(_, _, _, _, _)
keyLoop(entries, i, rules, li, acc) ==
    IF i > Len(entries) THEN [meta |-> Obj(acc), li |-> li]
    ELSE LET r == ruleLoop(entries[i].k, rules, 1, li, FALSE)
         IN  keyLoop(entries, i + 1, rules, r.li,
                     Append(acc, [k |-> entries[i].k,
                                  v |-> IF r.hit THEN REDACTED
                                        ELSE entries[i].v]))

\* redact(meta) with the RegExps' lastIndex values li: the redacted clone and
\* the lastIndex values left behind.
redact(meta, li) ==
    keyLoop(meta.entries, 1, instance.options.redactKeys, li, <<>>)

-----------------------------------------------------------------------------
(* Formatting.                                                             *)

COLORS == [error |-> "ESC[31m", warn |-> "ESC[33m", info |-> "ESC[36m",
           debug |-> "ESC[35m", http |-> "ESC[32m"]
RESET == "ESC[0m"

\* level.toUpperCase().padEnd(5)
UpperPad == [error |-> "ERROR", warn |-> "WARN ", info |-> "INFO ",
             http |-> "HTTP ", debug |-> "DEBUG"]

\* stringify(v) as the structure of the JSON text: a key whose value is
\* undefined is left out, undefined in an array is null, and an Error
\* object, which has no enumerable property, is {}.
RECURSIVE stringify(_)
stringify(v) ==
    IF v.t = "object" THEN
        LET Kept(e) == e.v.t # "undefined"
            kept == SelectSeq(v.entries, Kept)
        IN  Obj([i \in 1..Len(kept) |->
                    [k |-> kept[i].k, v |-> stringify(kept[i].v)]])
    ELSE IF v.t = "array" THEN
        Arr([i \in 1..Len(v.items) |->
                IF v.items[i].t = "undefined" THEN Null
                ELSE stringify(v.items[i])])
    ELSE IF v.t = "error" THEN EmptyObj
    ELSE v

\* format(entry): the line without its newline.
format(entry) ==
    IF instance.options.format = "json"
    THEN [fmt |-> "json", json |-> stringify(entry)]
    ELSE LET level == Get(entry, "level").s
             rid == Get(entry, "requestId")
             meta == Get(entry, "meta")
         IN  [fmt |-> "text",
              color |-> COLORS[level],
              lvl |-> UpperPad[level],
              reset |-> RESET,
              rid |-> IF Falsy(rid) THEN <<>> ELSE <<"[", rid, "]">>,
              message |-> Get(entry, "message"),
              meta |-> IF Len(meta.entries) # 0
                       THEN <<" ", stringify(meta)>> ELSE <<>>]

-----------------------------------------------------------------------------
(* The request context (AsyncLocalStorage).                                *)

NoStore == [t |-> "nostore"]

\* The store als.run is given by runWithContext: { requestId }.
alsStore(requestId) == [t |-> "store", requestId |-> requestId]

\* The store the execution sees again when als.run returns.
storeAfterRunMutant(outer, inner) == inner
storeAfterRun(outer, inner) == outer

\* this.als.getStore()?.requestId
getRequestId == IF store.t = "nostore" THEN Undef ELSE store.requestId

\* What a continuation created now will run in.
Captured == [store |-> store, chain |-> chain]

-----------------------------------------------------------------------------
(* The core write.                                                         *)

Passes(level) == levels[level] <= levels[instance.options.level]

\* A resolution in which the ambient value wins.
resolveRequestIdMutant(meta) ==
    IF getRequestId.t \notin {"undefined", "null"} THEN getRequestId
    ELSE Prop(meta, "requestId")

\* meta.requestId ?? getRequestId(), the caller having ruled out a meta on
\* which the property read throws.
resolveRequestId(meta) ==
    LET explicit == Prop(meta, "requestId")
    IN  IF explicit.t \in {"undefined", "null"} THEN getRequestId ELSE explicit

\* The LogEntry of write, without its timestamp.
Entry(level, message, normalized, requestId) ==
    Obj(<< [k |-> "level", v |-> Str(level)],
           [k |-> "message", v |-> Str(message)],
           [k |-> "service", v |-> Str(instance.options.serviceName)],
           [k |-> "environment", v |-> Str(Opt(env, "NODE_ENV", "development"))],
           [k |-> "meta", v |-> normalized],
           [k |-> "requestId", v |-> requestId] >>)

\* write(level, message, meta): what the call does, and the lastIndex values
\* of the rules when it ends.  kind is "dropped" (below the threshold),
\* "thrown" (an exception reaches the caller, nothing is written) or
\* "written" (one line goes to the stream).
write(level, message, meta) ==
    IF levels[level] > levels[instance.options.level]
    THEN [kind |-> "dropped", li |-> lastIndex]
    ELSE LET normal == normalizeMeta(meta)
         IN  IF IsThrown(normal)
             THEN [kind |-> "thrown", error |-> normal.error, li |-> lastIndex]
             ELSE LET red == redact(normal, lastIndex)
                  IN  IF meta.t \in {"undefined", "null"}
                      THEN [kind |-> "thrown", error |-> "TypeError",
                            li |-> red.li]
                      ELSE LET entry == Entry(level, message, red.meta,
                                              resolveRequestId(meta))
                           IN  [kind |-> "written", entry |-> entry,
                                line |-> format(entry), li |-> red.li]

\* The default of the meta parameter: error, warn, info and debug take {}
\* for an argument that is undefined; http has no default.
defaultMeta(level, meta) ==
    IF level # "http" /\ meta.t = "undefined" THEN EmptyObj ELSE meta

\* A spread in which the fixed fields win.
spreadMutant(fixedMeta, meta) ==
    LET own(v) == IF v.t = "object" THEN v.entries ELSE <<>>
    IN  Obj(PutAll(PutAll(<<>>, own(meta)), own(fixedMeta)))

\* { ...fixedMeta, ...meta } for mappings, null and undefined (the spread of
\* which adds nothing).
spread(fixedMeta, meta) ==
    LET own(v) == IF v.t = "object" THEN v.entries ELSE <<>>
    IN  Obj(PutAll(PutAll(<<>>, own(fixedMeta)), own(meta)))

\* What the stream and the rules hold after write returned res.
Wrote(res) ==
    /\ stream' = IF res.kind = "written"
                 THEN [stream EXCEPT ![instance.dest] = Append(@, res.line)]
                 ELSE stream
    /\ lastIndex' = res.li

NoCall == [n |-> 0]

\* logger.<level>(message, data)
Log(level, message, data) ==
    /\ instance # NoInstance
    /\ LET res == write(level, message, defaultMeta(level, data))
       IN  /\ Wrote(res)
           /\ npassed' = npassed + (IF Passes(level) THEN 1 ELSE 0)
           /\ last' = [n |-> last.n + 1, via |-> "logger", level |-> level,
                       data |-> data, fixed |-> Undef, li |-> lastIndex,
                       ambient |-> store, scopes |-> chain, res |-> res]
    /\ UNCHANGED <<env, instance, made, gets, heap, store, saved, pending,
                   chain, reqs>>

ChildLevels == {"error", "warn", "info", "debug"}

\* logger.child(fixedMeta).<level>(message, data)
child(fixedMeta, level, message, data) ==
    /\ instance # NoInstance
    /\ level \in ChildLevels
    /\ LET fixed == IF fixedMeta.t = "undefined" THEN EmptyObj ELSE fixedMeta
           merged == spread(fixed, defaultMeta(level, data))
           res == write(level, message, defaultMeta(level, merged))
       IN  /\ Wrote(res)
           /\ npassed' = npassed + (IF Passes(level) THEN 1 ELSE 0)
           /\ last' = [n |-> last.n + 1, via |-> "child", level |-> level,
                       data |-> data, fixed |-> fixedMeta, li |-> lastIndex,
                       ambient |-> store, scopes |-> chain, res |-> res]
    /\ UNCHANGED <<env, instance, made, gets, heap, store, saved, pending,
                   chain, reqs>>

-----------------------------------------------------------------------------
(* The inputs of the model.                                                *)

Scalars == {Num(0), Num(7), Str(""), Str("s"), Bool(FALSE), Bool(TRUE)}
ErrorValues == {ErrRef(e) : e \in Errs}
Arrays == {Arr(<<>>), Arr(<<Num(7), Undef>>), Arr(<<ErrRef(1)>>)}
Mappings == {EmptyObj,
             Obj(<< [k |-> "x", v |-> Num(1)] >>),
             Obj(<< [k |-> "err", v |-> ErrRef(1)], [k |-> "x", v |-> Num(0)] >>)}

\* Every shape of data a log call may be given.
DataShapes == {Undef, Null} \cup Scalars \cup ErrorValues \cup Arrays \cup Mappings

Envs == {NoOptions, [NODE_ENV |-> "production"]}

NoReqs == [r \in {} |-> Undef]

\* The running execution is outside every scope / inside one that
\* runWithContext(id, fn) opened at the top level.
Outside == store = NoStore /\ saved = << >> /\ chain = << >>
InScope(id) == store = alsStore(id) /\ saved = << NoStore >> /\ chain = << id >>

\* The state once getInstance(options) has built the logger, before any call.
Built(options) ==
    /\ instance = Construct(options, 1)
    /\ made = 1
    /\ gets = << >>
    /\ lastIndex = FreshIndexes(instance.options.redactKeys)
    /\ stream = NoOutput
    /\ pending = {}
    /\ reqs = NoReqs
    /\ npassed = 0
    /\ last = NoCall

-----------------------------------------------------------------------------
(* Spec: log calls of every level with data of every shape.                *)

Init ==
    /\ env \in Envs
    /\ heap \in Heaps
    /\ \E l \in Levels : Built([level |-> l])
    /\ Outside

Next ==
    /\ last.n < MaxCalls
    /\ \E level \in Levels, data \in DataShapes : Log(level, "msg", data)

Spec == Init /\ [][Next]_vars

-----------------------------------------------------------------------------
(* Claims about Spec.                                                      *)

Lines == stream[instance.dest]
Called == last.n > 0
LastWritten == Called /\ last.res.kind = "written"

\* C1: a log call writes exactly one line when its level passes the
\* configured threshold and nothing otherwise, so the lines written are as
\* many as the calls whose level passed.
C1_LinesEqualPassedCalls ==
    /\ Len(Lines) = npassed
    /\ Called => (last.res.kind = "written" <=> Passes(last.level))

\* C7: a log call whose level passes never fails because of the shape of its
\* data: it returns normally, the data coerced into a mapping, one line
\* written.
C7_NoShapeFailsTheCall ==
    (Called /\ Passes(last.level)) =>
        /\ last.res.kind = "written"
        /\ Get(last.res.entry, "meta").t = "object"

\* Whether a value is an Error, or an array or a mapping that holds one.
HoldsError(v) ==
    \/ v.t = "error"
    \/ v.t = "array" /\ \E i \in 1..Len(v.items) : v.items[i].t = "error"
    \/ v.t = "object" /\ \E i \in 1..Len(v.entries) : v.entries[i].v.t = "error"

\* C10: serialising an Error ends for every cause chain, cyclic ones
\* included, so a log call given an Error completes and writes its line.
C10_ErrorSerializationEnds ==
    (Called /\ Passes(last.level) /\ HoldsError(last.data)) =>
        last.res.kind = "written"

-----------------------------------------------------------------------------
(* SpecNorm: normalizeMeta as a function, applied to data of every shape.  *)

\* normalizeMeta(data), kept with its argument.
Normalize(data) ==
    /\ last' = [n |-> 1, data |-> data, out |-> normalizeMeta(data)]
    /\ UNCHANGED <<env, instance, made, gets, lastIndex, stream, heap, store,
                   saved, pending, chain, reqs, npassed>>

InitNorm ==
    /\ env \in Envs
    /\ heap \in Heaps
    /\ Built(NoOptions)
    /\ Outside

NextNorm == \E data \in DataShapes : Normalize(data)

SpecNorm == InitNorm /\ [][NextNorm]_vars

\* The case table of C9: absent gives {}, an Error its serialised form, an
\* array { items: [each element normalised] }, a mapping a copy with its
\* Errors serialised, a scalar { value: scalar }.
RECURSIVE C9_Table(_)
C9_Table(v) ==
    IF v.t \in {"undefined", "null"} THEN EmptyObj
    ELSE IF v.t = "error" THEN serializeError(v)
    ELSE IF v.t = "array" THEN
        Obj(<< [k |-> "items",
                v |-> Arr([i \in 1..Len(v.items) |-> C9_Table(v.items[i])])] >>)
    ELSE IF v.t = "object" THEN
        Obj([i \in 1..Len(v.entries) |->
                [k |-> v.entries[i].k,
                 v |-> IF v.entries[i].v.t = "error"
                       THEN serializeError(v.entries[i].v)
                       ELSE v.entries[i].v]])
    ELSE Obj(<< [k |-> "value", v |-> v] >>)

\* C9: normalizeMeta is total, its result a mapping, and follows the case
\* table for every input; every scalar, whatever its value, is wrapped as
\* { value: scalar }.
C9_NormalizeFollowsTable ==
    Called =>
        /\ last.out.t = "object"
        /\ last.out = C9_Table(last.data)

-----------------------------------------------------------------------------
(* Scopes and continuations.                                               *)

CtxIds == {Str("A"), Str("B")}

\* logger.runWithContext(requestId, fn) is entered: als.run binds the store
\* for the call of fn and remembers the one to restore.
runWithContext(requestId) ==
    /\ instance # NoInstance
    /\ Len(chain) < MaxDepth
    /\ saved' = Append(saved, store)
    /\ store' = alsStore(requestId)
    /\ chain' = Append(chain, requestId)
    /\ UNCHANGED <<env, instance, made, gets, lastIndex, stream, heap, pending,
                   reqs, npassed, last>>

\* fn returns, and als.run with it.
Return ==
    /\ saved # << >>
    /\ store' = storeAfterRun(saved[Len(saved)], store)
    /\ saved' = SubSeq(saved, 1, Len(saved) - 1)
    /\ chain' = SubSeq(chain, 1, Len(chain) - 1)
    /\ UNCHANGED <<env, instance, made, gets, lastIndex, stream, heap, pending,
                   reqs, npassed, last>>

\* The running execution starts asynchronous work (a promise, a timer): the
\* continuation will run in the store the execution has now.
Spawn ==
    /\ Cardinality(pending) < MaxPending
    /\ Captured \notin pending
    /\ pending' = pending \cup {Captured}
    /\ UNCHANGED <<env, instance, made, gets, lastIndex, stream, heap, store,
                   saved, chain, reqs, npassed, last>>

\* The running execution has ended (no als.run is active) and the event loop
\* runs a continuation, in the store it captured.
Resume(c) ==
    /\ saved = << >>
    /\ c \in pending
    /\ pending' = pending \ {c}
    /\ store' = c.store
    /\ chain' = c.chain
    /\ UNCHANGED <<env, instance, made, gets, lastIndex, stream, heap, saved,
                   reqs, npassed, last>>

\* The running execution has ended and the event loop runs code that no
\* scope encloses.
RunOutside ==
    /\ saved = << >>
    /\ store # NoStore
    /\ store' = NoStore
    /\ chain' = << >>
    /\ UNCHANGED <<env, instance, made, gets, lastIndex, stream, heap, saved,
                   pending, reqs, npassed, last>>

-----------------------------------------------------------------------------
(* SpecCorr: log calls with and without an explicit id, inside and outside *)
(* runWithContext scopes.                                                  *)

CorrData ==
    {Undef, Str("s"), EmptyObj,
     Obj(<< [k |-> "x", v |-> Num(1)] >>),
     Obj(<< [k |-> "requestId", v |-> Str("abc")] >>),
     Obj(<< [k |-> "requestId", v |-> Null] >>),
     Obj(<< [k |-> "correlationId", v |-> Str("cid")] >>),
     Obj(<< [k |-> "correlationId", v |-> Str("cid")],
            [k |-> "requestId", v |-> Str("abc")] >>)}

NoErrors == [e \in Errs |-> Undef]

InitCorr ==
    /\ env \in Envs
    /\ heap = NoErrors
    /\ Built(NoOptions)
    /\ Outside

NextCorr ==
    \/ \E id \in CtxIds : runWithContext(id)
    \/ Return
    \/ /\ last.n < MaxScopedCalls
       /\ \E data \in CorrData : Log("info", "msg", data)

SpecCorr == InitCorr /\ [][NextCorr]_vars

\* The data of the last call as write received it.
LastMeta == defaultMeta(last.level, last.data)
LastEntry == last.res.entry
LastLine == last.res.line
Given(v) == v.t \notin {"undefined", "null"}
AmbientId == IF last.ambient = NoStore THEN Undef ELSE last.ambient.requestId

\* Whether a line shows no correlation id / shows the id.
OmitsId(line) ==
    IF line.fmt = "json" THEN ~HasKey(line.json, "requestId")
    ELSE line.rid = << >>
ShowsId(line, id) ==
    IF line.fmt = "json" THEN Prop(line.json, "requestId") = id
    ELSE line.rid = <<"[", id, "]">>

\* C3 as amended: an explicit requestId field of the data (one that is not
\* null or undefined) takes precedence over the ambient value; a
\* correlationId field is not consulted; with no explicit requestId the
\* ambient value is used; with neither, the record has no id.
C3_ExplicitRequestIdFirst ==
    LastWritten =>
        LET explicit == Prop(LastMeta, "requestId")
            expected == IF Given(explicit) THEN explicit ELSE AmbientId
        IN  /\ Get(LastEntry, "requestId") = expected
            /\ IF expected = Undef THEN OmitsId(LastLine)
               ELSE ShowsId(LastLine, expected)

\* C3's case: an explicit requestId inside a scope that binds another id.
C3_Witness ==
    /\ LastWritten
    /\ Prop(LastMeta, "requestId") = Str("abc")
    /\ AmbientId = Str("A")
    /\ Get(LastEntry, "requestId") = Str("abc")

\* C3 as claimed: an explicit correlationId or requestId field of the data
\* takes precedence over the ambient value; with no explicit field the
\* ambient value is used; with neither the field is omitted.
C3_Original ==
    LastWritten =>
        LET explicit == {v \in {Prop(LastMeta, "correlationId"),
                                Prop(LastMeta, "requestId")} : Given(v)}
        IN  IF explicit # {}
            THEN Get(LastEntry, "requestId") \in explicit
            ELSE Get(LastEntry, "requestId") = AmbientId

-----------------------------------------------------------------------------
(* SpecRedact: calls with mappings of sensitive and plain keys, under rule *)
(* lists of exact keys and patterns.                                       *)

KeyPattern == <<"k", "e", "y">>

RuleLists ==
    {<< StrRule("password") >>,
     << StrRule("password"), ReRule(KeyPattern, FALSE) >>,
     << ReRule(KeyPattern, FALSE), StrRule("apikey") >>,
     << ReRule(KeyPattern, TRUE) >>}

SecretKeys == {"password", "apikey", "keyid", "userId"}
SecretValues == {Str("secret"), Num(7)}

RedactData ==
    {Obj(<< [k |-> k1, v |-> v1] >>) : k1 \in SecretKeys, v1 \in SecretValues}
    \cup UNION {{Obj(<< [k |-> k1, v |-> Str("secret")], [k |-> k2, v |-> v2] >>) :
                    k2 \in SecretKeys \ {k1}, v2 \in SecretValues} :
                 k1 \in SecretKeys}

InitRedact ==
    /\ env \in Envs
    /\ heap = NoErrors
    /\ \E rules \in RuleLists : Built([redactKeys |-> rules])
    /\ Outside

NextRedact ==
    /\ last.n < MaxCalls
    /\ \E data \in RedactData : Log("info", "msg", data)

SpecRedact == InitRedact /\ [][NextRedact]_vars

\* A rule matches a key: a string rule equal to it, or a pattern that occurs
\* in it.
RuleMatches(rule, key) ==
    IF rule.kind = "string" THEN rule.key = key
    ELSE MatchesFrom(rule.source, KeyText[key], 0) # {}

SomeRuleMatches(key) ==
    \E j \in 1..Len(instance.options.redactKeys) :
        RuleMatches(instance.options.redactKeys[j], key)

\* C4: in every emitted record, on every call, each top-level key of the
\* normalised meta that some rule matches holds exactly "[REDACTED]", and
\* each other key holds its normalised value.
C4_MatchedKeysAreRedacted ==
    LastWritten =>
        LET normal == normalizeMeta(LastMeta)
            meta == Get(LastEntry, "meta")
        IN  /\ Keys(meta) = Keys(normal)
            /\ \A k \in Keys(normal) :
                   Get(meta, k) = IF SomeRuleMatches(k) THEN REDACTED
                                  ELSE Get(normal, k)

-----------------------------------------------------------------------------
(* SpecChild: calls through child loggers, with fixed and per-call fields  *)
(* that collide and that do not.                                           *)

FixedMetas ==
    {Undef,
     Obj(<< [k |-> "component", v |-> Str("db")], [k |-> "keyid", v |-> Num(1)] >>)}

ChildData ==
    {Undef,
     Obj(<< [k |-> "component", v |-> Str("override")] >>),
     Obj(<< [k |-> "keyid", v |-> Num(2)],
            [k |-> "component", v |-> Str("override")],
            [k |-> "x", v |-> Num(1)] >>)}

InitChild ==
    /\ env = NoOptions
    /\ heap = NoErrors
    /\ \E l \in {"warn", "debug"} :
           Built([level |-> l, format |-> "json",
                  redactKeys |-> << ReRule(KeyPattern, TRUE) >>])
    /\ Outside \/ InScope(Str("A"))

NextChild ==
    /\ last.n < MaxCalls
    /\ \E fixedMeta \in FixedMetas, level \in ChildLevels, data \in ChildData :
           child(fixedMeta, level, "msg", data)

SpecChild == InitChild /\ [][NextChild]_vars

\* A mapping argument, absent taken as {}.
AsMapping(v) == IF v.t = "object" THEN v ELSE EmptyObj

\* F overridden by D, key by key.
Overridden(F, D, k) == IF HasKey(D, k) THEN Get(D, k) ELSE Get(F, k)

Orderings(K) ==
    {s \in [1..Cardinality(K) -> K] :
        \A i, j \in 1..Cardinality(K) : i # j => s[i] # s[j]}

\* The mappings that are F overridden by D, in each order of their keys.
OverrideMaps(F, D) ==
    {Obj([i \in DOMAIN s |-> [k |-> s[i], v |-> Overridden(F, D, s[i])]]) :
        s \in Orderings(Keys(F) \cup Keys(D))}

\* C5: a call of a level method of child(F) with (msg, D) has exactly the
\* effect of the parent's method of that level called with (msg, F
\* overridden by D): the same threshold decides, the same line goes to the
\* parent's stream, the parent's rules and context store are used and left
\* as that call leaves them.
C5_ChildDelegates ==
    [][(last'.n = last.n + 1 /\ last'.via = "child") =>
          \E merged \in OverrideMaps(AsMapping(last'.fixed),
                                     AsMapping(last'.data)) :
              LET res == write(last'.level, "msg", merged)
              IN  /\ last'.res = res
                  /\ Wrote(res)
                  /\ store' = store]_vars

\* C5's case: a fixed key overridden by the call, beside one that is kept.
C5_Witness ==
    /\ LastWritten
    /\ last.via = "child"
    /\ Prop(last.fixed, "component") = Str("db")
    /\ HasKey(last.fixed, "keyid")
    /\ last.data = Obj(<< [k |-> "component", v |-> Str("override")] >>)
    /\ Get(Get(LastEntry, "meta"), "component") = Str("override")
    /\ Get(Get(LastEntry, "meta"), "keyid") = REDACTED
    /\ Get(LastEntry, "requestId") = Str("A")
    /\ Len(Lines) = 2

-----------------------------------------------------------------------------
(* SpecCtx: units of work in runWithContext scopes, nested and interleaved *)
(* through their continuations, logging without an explicit id.            *)

InitCtx ==
    /\ env = [NODE_ENV |-> "production"]
    /\ heap = NoErrors
    /\ Built(NoOptions)
    /\ Outside

NextCtx ==
    \/ \E id \in CtxIds : runWithContext(id)
    \/ Return
    \/ Spawn
    \/ \E c \in pending : Resume(c)
    \/ RunOutside
    \/ /\ last.n < MaxScopedCalls
       /\ Log("info", "msg", Undef)

SpecCtx == InitCtx /\ [][NextCtx]_vars

\* The id bound by the innermost scope enclosing the call; none outside
\* every scope.
InnermostId == IF last.scopes = << >> THEN Undef
               ELSE last.scopes[Len(last.scopes)]

\* C2: every record emitted by a call that supplies no explicit id carries
\* the id bound by the innermost runWithContext scope enclosing the emitting
\* execution, through nesting, returns and asynchronous continuations, and
\* no id outside every scope.
C2_RecordCarriesInnermostScope ==
    (LastWritten /\ ~Given(Prop(LastMeta, "requestId"))) =>
        /\ Get(LastEntry, "requestId") = InnermostId
        /\ IF InnermostId = Undef THEN OmitsId(LastLine)
           ELSE ShowsId(LastLine, InnermostId)

\* C2's case: a continuation of a unit bound to A logs after a scope bound
\* to B has been entered and left, and while another continuation waits.
C2_Witness ==
    /\ LastWritten
    /\ last.scopes = << Str("A") >>
    /\ saved = << >>
    /\ Get(LastEntry, "requestId") = Str("A")
    /\ \E c \in pending : c.chain # << >> /\ c.chain[Len(c.chain)] = Str("B")

-----------------------------------------------------------------------------
(* SpecSingleton: getInstance called again and again with different        *)
(* configs, log calls in between.                                          *)

\* StructuredLogger.getInstance(options), options left out being {}.
GetInstance(options) ==
    /\ Len(gets) < MaxGets
    /\ instance' = getInstance(options)
    /\ made' = IF instance' = instance THEN made ELSE made + 1
    /\ lastIndex' = IF instance' = instance THEN lastIndex
                    ELSE FreshIndexes(instance'.options.redactKeys)
    /\ gets' = Append(gets, [options |-> options, ret |-> instance'])
    /\ UNCHANGED <<env, stream, heap, store, saved, pending, chain, reqs,
                   npassed, last>>

SingletonConfigs ==
    {NoOptions,
     [level |-> "warn"],
     [level |-> "error", format |-> "json", serviceName |-> "svc"],
     [redactKeys |-> << StrRule("password"), ReRule(KeyPattern, TRUE) >>],
     [filePath |-> "app.log", includeStackTraces |-> FALSE]}

InitSingleton ==
    /\ env \in Envs
    /\ heap = NoErrors
    /\ instance = NoInstance
    /\ made = 0
    /\ gets = << >>
    /\ lastIndex = << >>
    /\ stream = NoOutput
    /\ pending = {}
    /\ reqs = NoReqs
    /\ npassed = 0
    /\ last = NoCall
    /\ Outside

NextSingleton ==
    \/ \E options \in SingletonConfigs : GetInstance(options)
    \/ /\ last.n < MaxCalls
       /\ \E level \in {"error", "info"} :
              Log(level, "msg", Obj(<< [k |-> "keyid", v |-> Num(1)] >>))

SpecSingleton == InitSingleton /\ [][NextSingleton]_vars

\* C6: every getInstance call returns the same instance, the one built from
\* the config of the first call; later configs are ignored, and the
\* instance's level, format, rules and destination stay as first built.
C6_OneInstanceFirstConfig ==
    /\ made <= 1
    /\ gets # << >> =>
           /\ instance = Construct(gets[1].options, 1)
           /\ \A i \in 1..Len(gets) : gets[i].ret = instance
    /\ gets = << >> => instance = NoInstance

\* C6's case: a later call with another config, after the logger was used.
C6_Witness ==
    /\ Len(gets) >= 2
    /\ gets[1].options = [level |-> "warn"]
    /\ gets[2].options = [level |-> "error", format |-> "json", serviceName |-> "svc"]
    /\ gets[2].ret.options.level = "warn"
    /\ Len(Lines) = 1

-----------------------------------------------------------------------------
(* SpecHttp: requests through requestIdMiddleware and loggingMiddleware,   *)
(* several in flight, finishing in any order.                              *)

Reqs == 1..NumReqs

\* req.originalUrl and the id uuid() gives, one of each per request.
UrlOf(r) == <<"/r1", "/r2", "/r3", "/r4">>[r]
Uuid(r) == <<"u1", "u2", "u3", "u4">>[r]

\* The x-request-id header of a request; "" when it has none.
Headers == {"", "A"}

\* requestIdMiddleware(req, res, next): the header, or else a new uuid,
\* becomes req.requestId.  Express then calls the next middleware.
requestIdMiddleware(r) ==
    /\ reqs[r].pc = "new"
    /\ Outside
    /\ LET id == IF reqs[r].header # "" THEN reqs[r].header ELSE Uuid(r)
       IN  reqs' = [reqs EXCEPT ![r].requestId = Str(id),
                                ![r].locals = Str(id), ![r].pc = "idd"]
    /\ UNCHANGED <<env, instance, made, gets, lastIndex, stream, heap, store,
                   saved, pending, chain, npassed, last>>

\* The handler loggingMiddleware(logger) returns: inside
\* runWithContext(requestId, ...) it registers the finish listener and calls
\* next(); the asynchronous work the downstream handlers start runs in the
\* scope, and als.run restores the store when the callback returns.
loggingMiddleware(r) ==
    /\ reqs[r].pc = "idd"
    /\ instance # NoInstance
    /\ Outside
    /\ reqs' = [reqs EXCEPT ![r].pc = "inflight"]
    /\ pending' = pending \cup {[store |-> alsStore(reqs[r].requestId),
                                 chain |-> << reqs[r].requestId >>]}
    /\ UNCHANGED <<env, instance, made, gets, lastIndex, stream, heap, store,
                   saved, chain, npassed, last>>

\* A completion record that leaves the id to the ambient context.
httpMetaMutant(r) ==
    Obj(<< [k |-> "method", v |-> Str("GET")],
           [k |-> "url", v |-> Str(UrlOf(r))],
           [k |-> "statusCode", v |-> Num(200)],
           [k |-> "statusMessage", v |-> Str("OK")],
           [k |-> "duration", v |-> Num(12)],
           [k |-> "ip", v |-> Str("::1")],
           [k |-> "userAgent", v |-> Undef],
           [k |-> "contentLength", v |-> Undef] >>)

\* The data of the completion record.
httpMeta(r) ==
    Obj(<< [k |-> "method", v |-> Str("GET")],
           [k |-> "url", v |-> Str(UrlOf(r))],
           [k |-> "statusCode", v |-> Num(200)],
           [k |-> "statusMessage", v |-> Str("OK")],
           [k |-> "duration", v |-> Num(12)],
           [k |-> "requestId", v |-> reqs[r].requestId],
           [k |-> "ip", v |-> Str("::1")],
           [k |-> "userAgent", v |-> Undef],
           [k |-> "contentLength", v |-> Undef] >>)

\* The response emits finish: the listener calls logger.http, in the store
\* of the execution that emits.
Finish(r) ==
    /\ reqs[r].pc = "inflight"
    /\ LET res == write("http", "HTTP Request", httpMeta(r))
       IN  /\ Wrote(res)
           /\ npassed' = npassed + (IF Passes("http") THEN 1 ELSE 0)
           /\ last' = [n |-> last.n + 1, via |-> "middleware", level |-> "http",
                       data |-> httpMeta(r), fixed |-> Undef, li |-> lastIndex,
                       ambient |-> store, scopes |-> chain, res |-> res]
    /\ reqs' = [reqs EXCEPT ![r].pc = "finished"]
    /\ UNCHANGED <<env, instance, made, gets, heap, store, saved, pending,
                   chain>>

InitHttp ==
    /\ env = NoOptions
    /\ heap = NoErrors
    /\ \E l \in Levels, f \in {"json", "text"} :
           /\ instance = Construct([level |-> l, format |-> f], 1)
           /\ made = 1
           /\ gets = << >>
           /\ lastIndex = << >>
           /\ stream = NoOutput
           /\ pending = {}
           /\ npassed = 0
           /\ last = NoCall
    /\ reqs \in [Reqs -> {[pc |-> "new", header |-> h, requestId |-> Undef,
                              locals |-> Undef] : h \in Headers}]
    /\ Outside

NextHttp ==
    \/ \E r \in Reqs : requestIdMiddleware(r)
    \/ \E r \in Reqs : loggingMiddleware(r)
    \/ \E r \in Reqs : Finish(r)
    \/ \E c \in pending : Resume(c)
    \/ RunOutside

SpecHttp == InitHttp /\ [][NextHttp]_vars

\* What a line shows of the call that wrote it.
LineIsHttp(line) ==
    IF line.fmt = "json" THEN Prop(line.json, "level") = Str("http")
    ELSE line.lvl = UpperPad["http"]
LineUrl(line) ==
    IF line.fmt = "json" THEN Prop(Prop(line.json, "meta"), "url")
    ELSE IF line.meta = << >> THEN Undef ELSE Prop(line.meta[2], "url")

\* The completion records of request r on the destination stream.
CompletionLines(r) ==
    {i \in 1..Len(Lines) :
        LineIsHttp(Lines[i]) /\ LineUrl(Lines[i]) = Str(UrlOf(r))}

CarryOwnId(r) ==
    \A i \in CompletionLines(r) : ShowsId(Lines[i], reqs[r].requestId)

\* C8 as amended: when the logger's minimum level is http or debug, every
\* request that completes has exactly one http-level completion record on
\* the stream, carrying the id attached to that request, whatever the order
\* in which the requests finish; when the minimum level is error, warn or
\* info the completion record is dropped by the level filter, and a request
\* that has not completed has none.
C8_OneRecordWhenHttpPasses ==
    \A r \in Reqs :
        /\ Cardinality(CompletionLines(r)) =
               IF reqs[r].pc = "finished" /\ Passes("http") THEN 1 ELSE 0
        /\ CarryOwnId(r)

\* C8's case: two requests in flight, the second finishes first, the first
\* while the execution runs in the scope of the second.
C8_Witness ==
    /\ reqs[1].pc = "finished"
    /\ reqs[2].pc = "finished"
    /\ reqs[1].requestId # reqs[2].requestId
    /\ CompletionLines(2) = {1}
    /\ CompletionLines(1) = {2}
    /\ last.ambient = alsStore(reqs[2].requestId)
    /\ ShowsId(Lines[2], reqs[1].requestId)

\* C8 as claimed: every request that completes has exactly one http-level
\* completion record on the stream, carrying its id.
C8_Original ==
    \A r \in Reqs :
        reqs[r].pc = "finished" =>
            /\ Cardinality(CompletionLines(r)) = 1
            /\ CarryOwnId(r)

====
